---- MODULE Spec2Model ----
(***************************************************************************)
(* Model of the concurrency layer of vscode-npm-outdated:                  *)
(*   - promiseLimit / waitUntil   (src/src/Utils.ts)   the concurrency gate *)
(*   - lazyCallback               (src/src/Utils.ts)   the debounced trigger*)
(*   - getPackageVersions         (NPM module)         cached `npm view`    *)
(*   - getPackagesInstalled       (NPM module)         cached `npm ls`      *)
(* and of what it serves:                                                  *)
(*   - getPackageLatestVersion    (NPM module)         the suggestion       *)
(*   - DocumentDecoration         (src/src/DocumentDecoration.ts)           *)
(*   - the classification and the advisory pass of a dependency, from the  *)
(*     design (the diagnostics module is not among the sources)            *)
(*                                                                         *)
(* JavaScript runs every callback to completion.  A timer callback is a    *)
(* task of the event loop; the continuation of an `await` is a microtask,  *)
(* and all pending microtasks run before the next timer callback starts.   *)
(* Each action below is one such callback or continuation.                 *)
(***************************************************************************)
EXTENDS Naturals, Integers, Sequences, FiniteSets, TLC

\* Bounds of the model: callers of the gate, its limit, calls of the
\* activator, distinct args, the wait setting, cache lookups, clock steps,
\* versions published for a package, advisories known for it, characters
\* of a string handed to versionClear.
MaxCallers == 3
MaxConcurrency == 2
MaxCalls == 3
MaxArg == 2
MaxWait == 1
MaxLookups == 3
MaxTicks == 2
MaxPublished == 3
MaxAdvisories == 2
MaxLen == 4

Callers == 1..MaxCallers
ArgVals == 1..MaxArg
\* Package names looked up, and the directories of the open documents.
Names == {"lodash", "react"}
Docs == {"/a", "/b"}

\* An absent value (undefined) and a present one.
None == <<>>
Some(a) == <<a>>

VARIABLES
  \* promiseLimit
  concurrency, inProgress, gpc,
  \* lazyCallback
  wait, isRunning, argsNext, waitTimer, delayTimer, running,
  invoked, idleCalls, lastDuring, pendingRuns, ncalls, unserved,
  \* NPM: clock and `npm view` cache
  now, ticks, cacheLifetime, CACHE_PACKAGES, queries, lookup, nlookups, failures,
  \* NPM: `npm ls` cache
  CACHE_PACKAGES_INSTALLED, iqueries, ilookup, nilookups, lsExec,
  \* NPM: getPackageLatestVersion and the classification of a dependency
  protection, rpc, packageInfo, packageVersions, suggestion, classified, advised,
  \* DocumentDecoration
  layers, renderRunning, renderNext, shown, lastSet, lastMessages, renderedBy,
  \* versionClear
  clearInput, cleared, clearedAgain

gateVars == <<concurrency, inProgress, gpc>>
lazyVars == <<wait, isRunning, argsNext, waitTimer, delayTimer, running,
              invoked, idleCalls, lastDuring, pendingRuns, ncalls, unserved>>
clockVars == <<now, ticks>>
viewVars == <<cacheLifetime, CACHE_PACKAGES, queries, lookup, nlookups, failures>>
lsVars == <<CACHE_PACKAGES_INSTALLED, iqueries, ilookup, nilookups, lsExec>>
resVars == <<protection, rpc, packageInfo, packageVersions, suggestion, classified,
             advised>>
decoVars == <<layers, renderRunning, renderNext, shown, lastSet, lastMessages,
              renderedBy>>
clearVars == <<clearInput, cleared, clearedAgain>>
vars == <<gateVars, lazyVars, clockVars, viewVars, lsVars, resVars, decoVars, clearVars>>
\* What an action of one component leaves alone.
notGate == <<lazyVars, clockVars, viewVars, lsVars, resVars, decoVars, clearVars>>
notLazy == <<gateVars, clockVars, viewVars, lsVars, resVars, decoVars, clearVars>>
notClock == <<gateVars, lazyVars, viewVars, lsVars, resVars, decoVars, clearVars>>
notView == <<gateVars, lazyVars, clockVars, lsVars, resVars, decoVars, clearVars>>
notLs == <<gateVars, lazyVars, clockVars, viewVars, resVars, decoVars, clearVars>>
notRes == <<gateVars, lazyVars, clockVars, viewVars, lsVars, decoVars, clearVars>>
notDeco == <<gateVars, lazyVars, clockVars, viewVars, lsVars, resVars, clearVars>>
notClear == <<gateVars, lazyVars, clockVars, viewVars, lsVars, resVars, decoVars>>

(***************************************************************************)
(* promiseLimit(concurrency)                                               *)
(*                                                                         *)
(* gpc[c] is the position of caller c in the returned async function:      *)
(*   idle       not called yet                                             *)
(*   polling    inside waitUntil, the interval is armed         (line 87)  *)
(*   resolved   the interval saw the condition, cleared itself and         *)
(*              resolved; the await continuation is a pending microtask    *)
(*   running    inProgress++ done, func() started, its promise pending     *)
(*   fulfilled  func's promise fulfilled; continuation pending  (line 92)  *)
(*   rejected   func threw or its promise rejected; continuation pending   *)
(*   done       the gate's promise resolved with funcResult     (line 95)  *)
(*   failed     the gate's promise rejected                                *)
(***************************************************************************)
GateStart ==
  /\ inProgress = 0
  /\ gpc = [c \in Callers |-> "idle"]

GateInit == concurrency \in 0..MaxConcurrency /\ GateStart

\* Variant: the condition off by one.
VacancyOffByOne == inProgress <= concurrency
\* The condition handed to waitUntil (line 87).
Vacancy == inProgress < concurrency

\* A continuation of an await is queued: no timer callback runs before it.
MicrotaskPending == \E c \in Callers : gpc[c] \in {"resolved", "fulfilled", "rejected"}

\* A caller invokes the gate.  With concurrency 0 func() is called at once
\* and its result returned as is; otherwise waitUntil arms its interval.
GateCall(c) ==
  /\ gpc[c] = "idle"
  /\ gpc' = [gpc EXCEPT ![c] = IF concurrency = 0 THEN "running" ELSE "polling"]
  /\ UNCHANGED <<concurrency, inProgress, notGate>>

\* One firing of the interval of waitUntil.
PollFire(c) ==
  /\ gpc[c] = "polling"
  /\ ~MicrotaskPending
  /\ IF Vacancy
       THEN gpc' = [gpc EXCEPT ![c] = "resolved"]
       ELSE UNCHANGED gpc
  /\ UNCHANGED <<concurrency, inProgress, notGate>>

\* The continuation after `await waitUntil(...)`: take the seat, call func.
Resume(c) ==
  /\ gpc[c] = "resolved"
  /\ inProgress' = inProgress + 1
  /\ gpc' = [gpc EXCEPT ![c] = "running"]
  /\ UNCHANGED <<concurrency, notGate>>

\* func's result becomes available.
FuncFulfil(c) ==
  /\ gpc[c] = "running"
  /\ gpc' = [gpc EXCEPT ![c] = IF concurrency = 0 THEN "done" ELSE "fulfilled"]
  /\ UNCHANGED <<concurrency, inProgress, notGate>>

\* func throws, or the promise it returned rejects.
FuncReject(c) ==
  /\ gpc[c] = "running"
  /\ gpc' = [gpc EXCEPT ![c] = IF concurrency = 0 THEN "failed" ELSE "rejected"]
  /\ UNCHANGED <<concurrency, inProgress, notGate>>

\* The continuation after `await func()` when it fulfilled: inProgress--.
AfterFulfil(c) ==
  /\ gpc[c] = "fulfilled"
  /\ inProgress' = inProgress - 1
  /\ gpc' = [gpc EXCEPT ![c] = "done"]
  /\ UNCHANGED <<concurrency, notGate>>

\* The await throws: the rest of the function body is skipped.
AfterReject(c) ==
  /\ gpc[c] = "rejected"
  /\ gpc' = [gpc EXCEPT ![c] = "failed"]
  /\ UNCHANGED <<concurrency, inProgress, notGate>>

GateNext ==
  \E c \in Callers :
    \/ GateCall(c)
    \/ PollFire(c)
    \/ Resume(c)
    \/ FuncFulfil(c)
    \/ FuncReject(c)
    \/ AfterFulfil(c)
    \/ AfterReject(c)

\* funcs started and not yet completed.
Started == {c \in Callers : gpc[c] = "running"}
\* callers holding a seat that their function body has yet to give back.
Seated == {c \in Callers : gpc[c] \in {"running", "fulfilled", "rejected"}}

(***************************************************************************)
(* lazyCallback(callback, wait, delay)                                     *)
(*                                                                         *)
(* isRunning, argsNext are the closure's variables.  waitTimer is the      *)
(* timer of line 29 with the args its closure captured, delayTimer counts  *)
(* the armed timers of line 39, running counts the invocations of the      *)
(* wrapped callback W whose promise is still pending.  The value of delay  *)
(* only sets how long the completion timer takes to fire.                  *)
(*                                                                         *)
(* History kept for the properties:                                        *)
(*   invoked      the invocations of W in order: its args, and whether the *)
(*                unit was begun by a call made while idle ("leading") or  *)
(*                by the completion timer ("pending")                      *)
(*   idleCalls    the args of the calls made while isRunning was false     *)
(*   lastDuring   the args of the last call made while isRunning was true  *)
(*                since the current unit began                             *)
(*   pendingRuns  per firing of the completion timer after which calls had *)
(*                arrived: the args wanted and the args it passed on       *)
(*   ncalls       calls of the activator so far                            *)
(*   unserved     a call was made since W was last invoked                 *)
(***************************************************************************)
LazyStart ==
  /\ isRunning = FALSE
  /\ argsNext = None
  /\ waitTimer = None
  /\ delayTimer = 0
  /\ running = 0
  /\ invoked = <<>>
  /\ idleCalls = <<>>
  /\ lastDuring = None
  /\ pendingRuns = <<>>
  /\ ncalls = 0
  /\ unserved = FALSE

LazyInit == wait \in 0..MaxWait /\ LazyStart

\* What W does before its first await: nothing to the trigger (None), or a
\* call activate(b) of its own (Some(b)).
Reentry == {None} \cup {Some(b) : b \in ArgVals}
CallsIn(re) == IF re = None THEN 0 ELSE 1

\* Variant: the unit is entered without marking the trigger busy.
BusyNotSet == FALSE
\* The value line 23 gives isRunning.
BusyAfterEntry == TRUE

\* Variant: the wait timer prefers the pending slot to what it captured.
WaitTimerArgsFromSlot(captured) == IF argsNext # None THEN argsNext[1] ELSE captured
\* The args the closure of the wait timer passes to callback (line 30).
WaitTimerArgs(captured) == captured

\* argsNext after W's synchronous part ran while isRunning was true: a call
\* from inside W takes the else branch (line 50).
AfterSyncPart(slot, re) == IF re = None THEN slot ELSE re

\* activate(a) called from outside W.  re is what W does synchronously when
\* this call starts it.
Activate(a, re) ==
  /\ ncalls + 1 + CallsIn(re) <= MaxCalls
  /\ ncalls' = ncalls + 1 + CallsIn(re)
  /\ IF ~isRunning
       THEN /\ isRunning' = BusyAfterEntry
            /\ idleCalls' = Append(idleCalls, a)
            /\ IF wait = 0
                 THEN /\ invoked' = Append(invoked, [args |-> a, kind |-> "leading"])
                      /\ running' = running + 1
                      /\ argsNext' = AfterSyncPart(argsNext, re)
                      /\ lastDuring' = AfterSyncPart(lastDuring, re)
                      /\ unserved' = (re # None)
                      /\ UNCHANGED waitTimer
                 ELSE /\ re = None
                      /\ waitTimer' = Some([args |-> a, kind |-> "leading"])
                      /\ unserved' = TRUE
                      /\ UNCHANGED <<invoked, running, argsNext, lastDuring>>
       ELSE /\ re = None
            /\ argsNext' = Some(a)
            /\ lastDuring' = Some(a)
            /\ unserved' = TRUE
            /\ UNCHANGED <<isRunning, idleCalls, invoked, running, waitTimer>>
  /\ UNCHANGED <<wait, delayTimer, pendingRuns, notLazy>>

\* The wait timer fires (line 29): callback(...args) with the captured args.
WaitTimerFire(re) ==
  /\ waitTimer # None
  /\ ncalls + CallsIn(re) <= MaxCalls
  /\ ncalls' = ncalls + CallsIn(re)
  /\ invoked' = Append(invoked, [args |-> WaitTimerArgs(waitTimer[1].args),
                                 kind |-> waitTimer[1].kind])
  /\ running' = running + 1
  /\ waitTimer' = None
  /\ argsNext' = AfterSyncPart(argsNext, re)
  /\ lastDuring' = AfterSyncPart(lastDuring, re)
  /\ unserved' = (re # None)
  /\ UNCHANGED <<wait, isRunning, delayTimer, idleCalls, pendingRuns, notLazy>>

\* W's promise fulfils: the await of line 26 (or 30, then resolve() and the
\* await of line 28) continues and arms the completion timer (line 39).
WResolve ==
  /\ running > 0
  /\ running' = running - 1
  /\ delayTimer' = delayTimer + 1
  /\ UNCHANGED <<wait, isRunning, argsNext, waitTimer, invoked, idleCalls,
                 lastDuring, pendingRuns, ncalls, unserved, notLazy>>

\* W throws or its promise rejects: the await throws, line 39 is not reached
\* (with wait # 0, resolve() of line 32 is not reached either).
WReject ==
  /\ running > 0
  /\ running' = running - 1
  /\ UNCHANGED <<wait, isRunning, argsNext, waitTimer, delayTimer, invoked,
                 idleCalls, lastDuring, pendingRuns, ncalls, unserved, notLazy>>

\* The completion timer fires (lines 40-46): isRunning = false, then, if a
\* call is pending, activate(...argsNext) and only then argsNext = undefined.
DelayTimerFire(re) ==
  /\ delayTimer > 0
  /\ delayTimer' = delayTimer - 1
  /\ ncalls + CallsIn(re) <= MaxCalls
  /\ ncalls' = ncalls + CallsIn(re)
  /\ pendingRuns' = IF lastDuring # None \/ argsNext # None
                      THEN Append(pendingRuns, [want |-> lastDuring, got |-> argsNext])
                      ELSE pendingRuns
  /\ IF argsNext # None
       THEN /\ isRunning' = BusyAfterEntry
            /\ argsNext' = None
            /\ IF wait = 0
                 THEN /\ invoked' = Append(invoked, [args |-> argsNext[1], kind |-> "pending"])
                      /\ running' = running + 1
                      /\ lastDuring' = re
                      /\ unserved' = (re # None)
                      /\ UNCHANGED waitTimer
                 ELSE /\ re = None
                      /\ waitTimer' = Some([args |-> argsNext[1], kind |-> "pending"])
                      /\ lastDuring' = None
                      /\ UNCHANGED <<invoked, running, unserved>>
       ELSE /\ re = None
            /\ isRunning' = FALSE
            /\ lastDuring' = None
            /\ UNCHANGED <<argsNext, waitTimer, invoked, running, unserved>>
  /\ UNCHANGED <<wait, idleCalls, notLazy>>

LazyNext ==
  \/ \E a \in ArgVals, re \in Reentry : Activate(a, re)
  \/ \E re \in Reentry : WaitTimerFire(re)
  \/ WResolve
  \/ WReject
  \/ \E re \in Reentry : DelayTimerFire(re)

\* The args of the units begun by a call made while idle, in order: those
\* already handed to W and the one the wait timer still holds.
LeadingOf(s) == SelectSeq(s, LAMBDA r : r.kind = "leading")
ArgsOf(s) == [i \in 1..Len(s) |-> s[i].args]
LeadingArgs == ArgsOf(LeadingOf(invoked \o waitTimer))

(***************************************************************************)
(* The clock (Date.now(), in ms) and the Cache wrapper.  The Cache class   *)
(* and the settings are imported by the NPM module; they follow the data   *)
(* model: an entry is a value with its creation time, valid while          *)
(* now - createdAt < ttl.                                                  *)
(***************************************************************************)
\* TTL of the `npm ls` snapshot.
InstalledLifetime == 60 * 1000

\* Time passes between callbacks, by a little or by almost a TTL.
TimeSteps == {1, InstalledLifetime - 1}

\* Values of the cache lifetime setting (ms).
CacheLifetimes == {2, InstalledLifetime}

ClockInit ==
  /\ now = 0
  /\ ticks = 0

Tick(d) ==
  /\ ticks < MaxTicks
  /\ ticks' = ticks + 1
  /\ now' = now + d
  /\ UNCHANGED notClock

\* new Cache(value): the value and the time of its creation.
Cache(value) == [value |-> value, createdAt |-> now]

\* Cache.isValid(lifetime)
isValid(entry, lifetime) == now - entry.createdAt < lifetime

(***************************************************************************)
(* getPackageVersions(name)                                                *)
(*                                                                         *)
(* queries[q] is the q-th `npm view` process started and the promise       *)
(* (execPromise) made for it: its name, when it was made, and whether it   *)
(* is pending, resolved or rejected.  CACHE_PACKAGES[name] is None or      *)
(* Some(Cache) whose value is the index of the promise.                    *)
(*                                                                         *)
(* History kept for the properties:                                        *)
(*   failures[name]   the queries of that name that failed so far          *)
(*   queries[q].fails      failures[name] when q was started               *)
(*   queries[q].lastFails  failures[name] at the last call that returned q *)
(*   nlookups         calls so far                                         *)
(*   lookup           the last call (None before the first): its name, the *)
(*                    time, the promise it returned (q), whether it        *)
(*                    started a process (fresh), the state of that promise *)
(*                    when returned (status), and, of the queries of that  *)
(*                    name just before the call: those in flight (pend),   *)
(*                    those made less than a lifetime ago (within), those  *)
(*                    whether an entry was stored but past its lifetime    *)
(*                    (stale),                                             *)
(*                    since whose start no query of the name failed        *)
(*                    (sinceIssue), those since whose last return none     *)
(*                    failed (sinceReturned); afterFailure: a query of the *)
(*                    name failed since the previous call for it           *)
(***************************************************************************)
ViewStart ==
  /\ CACHE_PACKAGES = [n \in Names |-> None]
  /\ queries = <<>>
  /\ lookup = None
  /\ nlookups = 0
  /\ failures = [n \in Names |-> 0]

ViewInit == cacheLifetime \in CacheLifetimes /\ ViewStart

\* The setting read at each call.
getCacheLifetime == cacheLifetime

\* Variant: the cache is never consulted.
CacheHitNever(name) == FALSE
\* Variant: an entry is returned whatever its age.
CacheHitAtAnyAge(name) == CACHE_PACKAGES[name] # None
\* Line 927: the entry exists and is within its lifetime.
CacheHit(name) ==
  /\ CACHE_PACKAGES[name] # None
  /\ isValid(CACHE_PACKAGES[name][1], getCacheLifetime)

\* Variant: the promise is not stored.
StoreNothing(name, q) == CACHE_PACKAGES
\* Line 952: CACHE_PACKAGES[name] = new Cache(execPromise)
StoreEntry(name, q) == [CACHE_PACKAGES EXCEPT ![name] = Some(Cache(q))]

\* Variant: the entry of a failed query is kept.
KeepEntry(name) == CACHE_PACKAGES
\* Line 946: delete CACHE_PACKAGES[name]
DeleteEntry(name) == [CACHE_PACKAGES EXCEPT ![name] = None]

\* JSON.parse(stdout) returns (TRUE) or throws (FALSE).
ViewStdouts == {"garbage", "versions"}
JsonParses(stdout) == stdout # "garbage"

QueriesOf(name) == {q \in 1..Len(queries) : queries[q].name = name}
InFlight(name) == {q \in QueriesOf(name) : queries[q].status = "pending"}

\* What the history records of a call for name that returns promise q.
LookupRecord(name, q, fresh, status) ==
  [name |-> name, at |-> now, q |-> q, fresh |-> fresh, status |-> status,
   stale |-> CACHE_PACKAGES[name] # None /\ ~CacheHit(name),
   pend |-> InFlight(name),
   within |-> {p \in QueriesOf(name) : now - queries[p].createdAt < cacheLifetime},
   sinceIssue |-> {p \in QueriesOf(name) : queries[p].fails = failures[name]},
   sinceReturned |-> {p \in QueriesOf(name) : queries[p].lastFails = failures[name]},
   afterFailure |-> /\ QueriesOf(name) # {}
                    /\ \A p \in QueriesOf(name) : queries[p].lastFails < failures[name]]

GetPackageVersions(name) ==
  /\ nlookups < MaxLookups
  /\ nlookups' = nlookups + 1
  /\ IF CacheHit(name)
       THEN LET q == CACHE_PACKAGES[name][1].value IN
            /\ lookup' = Some(LookupRecord(name, q, FALSE, queries[q].status))
            /\ queries' = [queries EXCEPT ![q].lastFails = failures[name]]
            /\ UNCHANGED CACHE_PACKAGES
       ELSE LET q == Len(queries) + 1 IN
            /\ queries' = Append(queries, [name |-> name, createdAt |-> now,
                                           status |-> "pending",
                                           fails |-> failures[name],
                                           lastFails |-> failures[name]])
            /\ CACHE_PACKAGES' = StoreEntry(name, q)
            /\ lookup' = Some(LookupRecord(name, q, TRUE, "pending"))
  /\ UNCHANGED <<cacheLifetime, failures, notView>>

\* The callback of exec (lines 935-949).
ViewExecCallback(q, error, stdout) ==
  /\ queries[q].status = "pending"
  /\ IF ~error /\ JsonParses(stdout)
       THEN /\ queries' = [queries EXCEPT ![q].status = "resolved"]
            /\ UNCHANGED <<CACHE_PACKAGES, failures>>
       ELSE /\ CACHE_PACKAGES' = DeleteEntry(queries[q].name)
            /\ queries' = [queries EXCEPT ![q].status = "rejected"]
            /\ failures' = [failures EXCEPT ![queries[q].name] = @ + 1]
  /\ UNCHANGED <<cacheLifetime, lookup, nlookups, notView>>

ViewNext ==
  \/ \E d \in TimeSteps : Tick(d)
  \/ \E n \in Names : GetPackageVersions(n)
  \/ \E q \in 1..Len(queries), error \in BOOLEAN, stdout \in ViewStdouts :
       ViewExecCallback(q, error, stdout)

(***************************************************************************)
(* getPackagesInstalled(document)                                          *)
(*                                                                         *)
(* iqueries[q] is the q-th `npm ls` process and its promise: the directory *)
(* it ran in, when it was made and how the promise settled.                *)
(* CACHE_PACKAGES_INSTALLED is None (undefined) or Some(Cache) whose value *)
(* is the index of the promise.                                            *)
(*                                                                         *)
(* History kept for the properties:                                        *)
(*   nilookups  calls so far                                               *)
(*   ilookup    the last call (None before the first): its document, the   *)
(*              time, the promise returned, whether a process was started, *)
(*              what the promise held when returned ("none": pending), and *)
(*              whether an entry was stored but past its lifetime (stale)  *)
(*   lsExec     the last callback of exec (None before the first): what    *)
(*              exec handed to it and how it settled the promise           *)
(***************************************************************************)
LsInit ==
  /\ CACHE_PACKAGES_INSTALLED = None
  /\ iqueries = <<>>
  /\ ilookup = None
  /\ nilookups = 0
  /\ lsExec = None

\* stdout of `npm ls --json --depth=0`: nothing, not JSON, JSON without a
\* dependencies field, JSON with one.
LsStdouts == {"", "garbage", "nodeps", "deps"}

\* Line 1031: if (stdout)
Truthy(stdout) == stdout # ""
\* Line 1035: execResult.dependencies, after a JSON.parse that returned.
HasDependencies(stdout) == stdout = "deps"

\* Variant: an error reported by exec rejects the promise.
LsOutcomeRejecting(error, stdout) ==
  IF error
    THEN [status |-> "rejected", value |-> "none"]
    ELSE IF Truthy(stdout) /\ JsonParses(stdout) /\ HasDependencies(stdout)
           THEN [status |-> "resolved", value |-> "mapping"]
           ELSE [status |-> "resolved", value |-> "undefined"]
\* How the callback of exec settles the promise (lines 1030-1053).  The
\* error argument (_error) is not read.
LsOutcome(error, stdout) ==
  IF Truthy(stdout) /\ JsonParses(stdout) /\ HasDependencies(stdout)
    THEN [status |-> "resolved", value |-> "mapping"]
    ELSE [status |-> "resolved", value |-> "undefined"]

\* Line 1022
LsCacheHit ==
  /\ CACHE_PACKAGES_INSTALLED # None
  /\ isValid(CACHE_PACKAGES_INSTALLED[1], InstalledLifetime)

GetPackagesInstalled(doc) ==
  /\ nilookups < MaxLookups
  /\ nilookups' = nilookups + 1
  /\ IF LsCacheHit
       THEN LET q == CACHE_PACKAGES_INSTALLED[1].value IN
            /\ ilookup' = Some([doc |-> doc, at |-> now, fresh |-> FALSE, q |-> q,
                                seen |-> iqueries[q].value, stale |-> FALSE])
            /\ UNCHANGED <<CACHE_PACKAGES_INSTALLED, iqueries>>
       ELSE LET q == Len(iqueries) + 1 IN
            /\ iqueries' = Append(iqueries, [cwd |-> doc, createdAt |-> now,
                                             status |-> "pending", value |-> "none"])
            /\ CACHE_PACKAGES_INSTALLED' = Some(Cache(q))
            /\ ilookup' = Some([doc |-> doc, at |-> now, fresh |-> TRUE, q |-> q,
                                seen |-> "none",
                                stale |-> CACHE_PACKAGES_INSTALLED # None])
  /\ UNCHANGED <<lsExec, notLs>>

\* The callback of exec (lines 1030-1053).
LsExecCallback(q, error, stdout) ==
  /\ iqueries[q].status = "pending"
  /\ iqueries' = [iqueries EXCEPT ![q].status = LsOutcome(error, stdout).status,
                                  ![q].value = LsOutcome(error, stdout).value]
  /\ lsExec' = Some([q |-> q, error |-> error, stdout |-> stdout,
                     status |-> LsOutcome(error, stdout).status,
                     value |-> LsOutcome(error, stdout).value])
  /\ UNCHANGED <<CACHE_PACKAGES_INSTALLED, ilookup, nilookups, notLs>>

LsNext ==
  \/ \E d \in TimeSteps : Tick(d)
  \/ \E doc \in Docs : GetPackagesInstalled(doc)
  \/ \E q \in 1..Len(iqueries), error \in BOOLEAN, stdout \in LsStdouts :
       LsExecCallback(q, error, stdout)

(***************************************************************************)
(* Versions and ranges (the semver package, as getPackageLatestVersion     *)
(* uses it).                                                               *)
(*                                                                         *)
(* A string is the sequence of its tokens: a digit, ".", "-", a prerelease *)
(* identifier, a range operator, a blank.  A parsed version is a record    *)
(* of its three numbers and its prerelease identifier ("" for a release).  *)
(* A range is None (not a range: nothing satisfies it) or Some of its      *)
(* lower comparator lo (>=) and its upper comparator hi (<), hi being None *)
(* when there is none.                                                     *)
(***************************************************************************)
Digits == {"0", "1", "2"}
DigitValue == ("0" :> 0) @@ ("1" :> 1) @@ ("2" :> 2)
DigitOf(n) == CHOOSE d \in Digits : DigitValue[d] = n
\* Prerelease identifiers; "0" is the one semver puts in a range's bounds.
PreIds == {"alpha", "beta"}
\* Precedence of prerelease identifiers: numeric ones below alphanumeric
\* ones, those in ASCII order, and a release above every prerelease.
PreRank == ("0" :> 0) @@ ("alpha" :> 1) @@ ("beta" :> 2) @@ ("" :> 3)

SemVer(major, minor, patch, pre) ==
  [major |-> major, minor |-> minor, patch |-> patch, pre |-> pre]

\* The versions a registry may hold for the package.
Published ==
  {SemVer(M, m, p, pre) : M \in {0, 1}, m \in {0, 1}, p \in {0, 1}, pre \in {"", "alpha"}}
    \cup {SemVer(2, 0, 0, ""), SemVer(2, 0, 0, "alpha")}
\* What `npm view --json name versions` resolves to: a list without
\* duplicates, whose order maxSatisfying does not depend on.
VersionSets == {V \in SUBSET Published : Cardinality(V) <= MaxPublished}

\* new SemVer(v).version: the canonical string of a version.
Str(v) ==
  <<DigitOf(v.major), ".", DigitOf(v.minor), ".", DigitOf(v.patch)>>
    \o (IF v.pre = "" THEN <<>> ELSE <<"-", v.pre>>)

IsNum(s, i) == i <= Len(s) /\ s[i] \in Digits
IsDot(s, i) == i <= Len(s) /\ s[i] = "."
\* The shapes of a (partial) version: 1, 1.0, 1.0.1, 1.0.1-alpha.
Shape1(s) == Len(s) = 1 /\ IsNum(s, 1)
Shape2(s) == Len(s) = 3 /\ IsNum(s, 1) /\ IsDot(s, 2) /\ IsNum(s, 3)
Shape3(s) ==
  /\ Len(s) = 5
  /\ IsNum(s, 1) /\ IsDot(s, 2) /\ IsNum(s, 3) /\ IsDot(s, 4) /\ IsNum(s, 5)
Shape3Pre(s) ==
  /\ Len(s) = 7
  /\ Shape3(SubSeq(s, 1, 5))
  /\ s[6] = "-" /\ s[7] \in PreIds

\* semver.parse: a full version or null.
parse(s) ==
  IF Shape3(s)
    THEN Some(SemVer(DigitValue[s[1]], DigitValue[s[3]], DigitValue[s[5]], ""))
    ELSE IF Shape3Pre(s)
           THEN Some(SemVer(DigitValue[s[1]], DigitValue[s[3]], DigitValue[s[5]], s[7]))
           ELSE None

\* prerelease(s) !== null
prerelease(s) == parse(s) # None /\ parse(s)[1].pre # ""

\* semver.coerce: the first run of up to three numbers, as a release.
coerce(s) ==
  IF ~IsNum(s, 1)
    THEN None
    ELSE LET hasMinor == IsDot(s, 2) /\ IsNum(s, 3)
             hasPatch == hasMinor /\ IsDot(s, 4) /\ IsNum(s, 5)
         IN Some(SemVer(DigitValue[s[1]],
                        IF hasMinor THEN DigitValue[s[3]] ELSE 0,
                        IF hasPatch THEN DigitValue[s[5]] ELSE 0, ""))

\* a < b in semantic-version precedence.
Precedes(a, b) ==
  \/ a.major < b.major
  \/ a.major = b.major /\ a.minor < b.minor
  \/ a.major = b.major /\ a.minor = b.minor /\ a.patch < b.patch
  \/ /\ a.major = b.major /\ a.minor = b.minor /\ a.patch = b.patch
     /\ PreRank[a.pre] < PreRank[b.pre]

\* semver.gt(a, s), s a version string.
gt(a, s) == Precedes(parse(s)[1], a)

\* The range `>=0`.
AnyVersion(incl) ==
  Some([lo |-> SemVer(0, 0, 0, IF incl THEN "0" ELSE ""), hi |-> None])

\* The upper comparator of a caret range: the leftmost non-zero number
\* given goes up by one, or the last number given when all are zero.
CaretCeiling(M, m, p, given) ==
  IF M > 0 \/ given = 1
    THEN SemVer(M + 1, 0, 0, "0")
    ELSE IF m > 0 \/ given = 2
           THEN SemVer(0, m + 1, 0, "0")
           ELSE SemVer(0, 0, p + 1, "0")

\* The range `^s`.
Caret(s, incl) ==
  LET z == IF incl THEN "0" ELSE "" IN
  IF Shape1(s)
    THEN Some([lo |-> SemVer(DigitValue[s[1]], 0, 0, z),
               hi |-> Some(CaretCeiling(DigitValue[s[1]], 0, 0, 1))])
    ELSE IF Shape2(s)
      THEN Some([lo |-> SemVer(DigitValue[s[1]], DigitValue[s[3]], 0, z),
                 hi |-> Some(CaretCeiling(DigitValue[s[1]], DigitValue[s[3]], 0, 2))])
      ELSE IF parse(s) # None
        THEN LET v == parse(s)[1] IN
             Some([lo |-> SemVer(v.major, v.minor, v.patch,
                                 IF v.pre # "" THEN v.pre ELSE z),
                   hi |-> Some(CaretCeiling(v.major, v.minor, v.patch, 3))])
        ELSE None

SameTuple(a, b) == a.major = b.major /\ a.minor = b.minor /\ a.patch = b.patch
Comparators(r) == {r.lo} \cup (IF r.hi = None THEN {} ELSE {r.hi[1]})

\* Range.test: every comparator holds, and a prerelease passes only with
\* includePrerelease or next to a comparator of its own tuple that has a
\* prerelease.
satisfies(v, r, incl) ==
  /\ ~Precedes(v, r.lo)
  /\ r.hi # None => Precedes(v, r.hi[1])
  /\ (v.pre # "" /\ ~incl) =>
       \E c \in Comparators(r) : c.pre # "" /\ SameTuple(c, v)

\* semver.maxSatisfying(versions, range, {includePrerelease}): null or the
\* greatest of the versions the range admits.
maxSatisfying(versions, r, incl) ==
  IF r = None
    THEN None
    ELSE LET S == {v \in versions : satisfies(v, r[1], incl)} IN
         IF S = {} THEN None
         ELSE Some(CHOOSE v \in S : \A w \in S : ~Precedes(v, w))

(***************************************************************************)
(* versionClear(version)   (src/src/Utils.ts)                              *)
(***************************************************************************)
RECURSIVE DropLeadingNonDigits(_)
\* replace(/^\D+/, "")
DropLeadingNonDigits(s) ==
  IF s = <<>> \/ s[1] \in Digits THEN s ELSE DropLeadingNonDigits(Tail(s))

RECURSIVE trimEnd(_)
trimEnd(s) ==
  IF s = <<>> \/ s[Len(s)] # " " THEN s ELSE trimEnd(SubSeq(s, 1, Len(s) - 1))

\* Variant: one leading character is taken for the operator.
versionClearOneOperator(version) ==
  trimEnd(IF version # <<>> /\ version[1] \notin Digits THEN Tail(version) ELSE version)
\* Lines 104-105
versionClear(version) == trimEnd(DropLeadingNonDigits(version))

\* The strings versionClear is followed on: every string of up to MaxLen
\* characters, caret ranges of the published versions, a range with a
\* two-character operator and a trailing blank, and a range whose
\* prerelease tag has two identifiers, as in `^13.0.7-canary.3`.
ClearChars == {"0", "1", "^", ".", "-", "alpha", " "}
TaggedRange == <<"^", "1", ".", "0", ".", "1", "-", "alpha", ".", "1">>
ClearInputs ==
  UNION {[1..n -> ClearChars] : n \in 0..MaxLen}
    \cup {<<"^">> \o Str(v) : v \in Published}
    \cup {<<">", "=", "1", ".", "0", ".", "1", " ">>, TaggedRange}

ClearStart == cleared = None /\ clearedAgain = None
ClearInit == clearInput \in ClearInputs /\ ClearStart

\* versionClear(clearInput)
VersionClearCall ==
  /\ cleared = None
  /\ cleared' = Some(versionClear(clearInput))
  /\ UNCHANGED <<clearInput, clearedAgain, notClear>>

\* versionClear applied to its own result.
VersionClearAgain ==
  /\ cleared # None
  /\ clearedAgain = None
  /\ clearedAgain' = Some(versionClear(cleared[1]))
  /\ UNCHANGED <<clearInput, cleared, notClear>>

ClearNext == VersionClearCall \/ VersionClearAgain

(***************************************************************************)
(* getPackageLatestVersion(packageInfo)                                    *)
(*                                                                         *)
(* rpc is the position of the call: idle, awaiting (suspended at the await *)
(* of getPackageVersions, line 961), returned (its promise resolved with   *)
(* suggestion) or rejected.  The promise awaited is the one                *)
(* getPackageVersions made: the callback of exec resolves it with the      *)
(* published versions or rejects it (lines 935-949).                       *)
(***************************************************************************)
\* Declared ranges with a version in them.
Resolvable ==
  {<<"^">> \o Str(v) : v \in Published}
    \cup {<<"1">>, <<"0">>, <<"~", "1", ".", "0">>, <<"0", ".", "1">>,
          <<"0", ".", "0">>, <<">", "=", "1", ".", "0", ".", "1", " ">>}

\* Variants: prereleases are always, or never, asked for.
includePrereleaseAlways(isPrerelease) == TRUE
includePrereleaseNever(isPrerelease) == FALSE
\* The options given to maxSatisfying (lines 966-968 and 989-991).
includePrerelease(isPrerelease) == isPrerelease

\* Variant: the test of the setting is inverted.
ReturnsLatestInverted(protect) == protect
\* Line 972: if (!hasMajorUpdateProtection())
ReturnsLatest(protect) == ~protect

\* Variant: a release is never preferred to the prerelease line.
GraduatesNever(versionNonPrerelease, versionClean) == FALSE
\* Line 984
Graduates(versionNonPrerelease, versionClean) ==
  versionNonPrerelease # None /\ gt(versionNonPrerelease[1], versionClean)

\* Variants: the latest version is always suggested; the comparison with
\* the baseline is missing.
FallsBackAlways(versionSatisfying, versionClean) == TRUE
FallsBackOnlyWhenAbsent(versionSatisfying, versionClean) == versionSatisfying = None
\* Line 996
FallsBack(versionSatisfying, versionClean) ==
  versionSatisfying = None \/ versionClean = Str(versionSatisfying[1])

\* What a maxSatisfying result is returned as: null or the version string.
Returned(found) == IF found = None THEN None ELSE Some(Str(found[1]))

\* Lines 962-1001, after the await.
LatestVersion(version, versions, protect) ==
  LET versionClean == versionClear(version)
      isPrerelease == prerelease(versionClean)
      versionLatest ==
        maxSatisfying(versions, AnyVersion(includePrerelease(isPrerelease)),
                      includePrerelease(isPrerelease))
      versionNonPrerelease ==
        maxSatisfying(versions, Caret(Str(coerce(versionClean)[1]), FALSE), FALSE)
      versionSatisfying ==
        maxSatisfying(versions, Caret(versionClean, includePrerelease(isPrerelease)),
                      includePrerelease(isPrerelease))
  IN IF ReturnsLatest(protect)
       THEN Returned(versionLatest)
       ELSE IF isPrerelease /\ Graduates(versionNonPrerelease, versionClean)
              THEN Returned(versionNonPrerelease)
              ELSE IF FallsBack(versionSatisfying, versionClean)
                     THEN Returned(versionLatest)
                     ELSE Returned(versionSatisfying)

ResStart ==
  /\ rpc = "idle"
  /\ packageInfo = None
  /\ packageVersions = None
  /\ suggestion = None
  /\ classified = None
  /\ advised = None

\* hasMajorUpdateProtection(): the setting.
ResInit == protection \in BOOLEAN /\ ResStart

\* Lines 958-961: the call, up to the await.
GetPackageLatestVersion(info) ==
  /\ rpc = "idle"
  /\ rpc' = "awaiting"
  /\ packageInfo' = Some(info)
  /\ UNCHANGED <<protection, packageVersions, suggestion, classified, advised, notRes>>

\* The promise of getPackageVersions resolves: lines 962-1001 run.
VersionsFulfilled(versions) ==
  /\ rpc = "awaiting"
  /\ rpc' = "returned"
  /\ packageVersions' = Some(versions)
  /\ suggestion' = LatestVersion(packageInfo[1].version, versions, protection)
  /\ UNCHANGED <<protection, packageInfo, classified, advised, notRes>>

\* The promise of getPackageVersions rejects: the await throws, and with
\* no handler around it the promise of getPackageLatestVersion rejects.
VersionsRejected ==
  /\ rpc = "awaiting"
  /\ rpc' = "rejected"
  /\ UNCHANGED <<protection, packageInfo, packageVersions, suggestion, classified,
                 advised, notRes>>

(***************************************************************************)
(* The classification of a declared dependency.  The code that decides it  *)
(* (the diagnostics module) is not among the sources; what follows is the  *)
(* design's: a disjunctive range, or one that is not a registry-style      *)
(* range, is skipped (not-applicable, no record); every other dependency   *)
(* gets one status record, whatever the lookups returned.                  *)
(***************************************************************************)
\* Declared ranges without a version to resolve: a disjunction, local
\* paths, URLs, a GitHub reference.
Unresolvable ==
  {<<"^", "1", ".", "0", ".", "0", " ", "||", " ", "^", "2", ".", "0", ".", "0">>,
   <<"../", "src">>, <<"~/", "src">>, <<"file:", "/", "src">>,
   <<"https:", "//", "host">>, <<"git:", "//", "host">>,
   <<"owner", "/", "repo">>}
DeclaredRanges == Resolvable \cup Unresolvable

Disjunctive(range) == \E i \in 1..Len(range) : range[i] = "||"
NotRegistryStyle(range) ==
  /\ range # <<>>
  /\ \/ range[1] \in {"./", "../", "~/", "/", "file:", "http:", "https:", "git:"}
     \/ \E i \in 1..Len(range) : range[i] = "/"
\* Variant: disjunctions are not skipped.
SkipOnlyPaths(range) == NotRegistryStyle(range)
\* The skip conditions of the resolution.
Skip(range) == Disjunctive(range) \/ NotRegistryStyle(range)

\* The status of a dependency, given the declared range and the outcome
\* of the lookup of its published versions (None: the lookup failed).
StatusKind(range, published) ==
  IF Skip(range) THEN "not-applicable"
  ELSE IF published = None THEN "install-pending"
  ELSE "resolved"

\* One classification pass for one dependency: the status and whether a
\* record is handed to the presentation.
Classify(range, published) ==
  /\ classified = None
  /\ classified' = Some([range |-> range, published |-> published,
                         status |-> StatusKind(range, published),
                         emitted |-> StatusKind(range, published) # "not-applicable"])
  /\ UNCHANGED <<protection, rpc, packageInfo, packageVersions, suggestion, advised,
                 notRes>>

\* One call is followed from start to end.
ResNext ==
  \/ \E r \in Resolvable : GetPackageLatestVersion([name |-> "lodash", version |-> r])
  \/ rpc = "awaiting" /\ \E V \in VersionSets : VersionsFulfilled(V)
  \/ VersionsRejected

\* One pass is followed.
ClassifyNext ==
  /\ classified = None
  /\ \E r \in DeclaredRanges, published \in {None} \cup {Some(V) : V \in VersionSets} :
       Classify(r, published)

(***************************************************************************)
(* The advisory pass over a dependency.  Like the classification, it is    *)
(* decided by the diagnostics module, which is not among the sources; what *)
(* follows is the design's.  A version is vulnerable iff it matches the    *)
(* vulnerable range of an advisory.  When the installed version and the    *)
(* suggestion are both vulnerable, the published versions below the        *)
(* installed one are searched for the highest that is not vulnerable; the  *)
(* search follows the prerelease inclusion rule of the declared range, as  *)
(* the suggestion does.                                                    *)
(***************************************************************************)
\* The versions, ranges and advisories a pass is followed for.
AdvisedVersions ==
  {v \in Published : v.major = 1 /\ v.minor = 0} \cup {SemVer(1, 1, 0, "")}
AdvisedRanges ==
  {<<"^">> \o Str(v) : v \in {SemVer(1, 0, 0, ""), SemVer(1, 0, 1, ""),
                              SemVer(1, 0, 1, "alpha")}}
\* vulnerableRange of an AdvisoryRecord: an exact version ("1.0.1") or all
\* releases up to one ("<=1.0.1").
AdvisoryRanges ==
  {[op |-> op, version |-> v] : op \in {"=", "<="},
                                v \in {w \in AdvisedVersions : w.pre = ""}}
AdvisorySets == {A \in SUBSET AdvisoryRanges : Cardinality(A) <= MaxAdvisories}

Matches(v, r) ==
  IF r.op = "=" THEN v = r.version
                ELSE v.pre = "" /\ ~Precedes(r.version, v)
Vulnerable(v, advisories) == \E r \in advisories : Matches(v, r)

\* Variant: every published version is searched.
SearchedAll(versions, range) == versions
\* The published versions the search looks at: a prerelease only when the
\* baseline of the declared range is one.
Searched(versions, range) ==
  {v \in versions :
     v.pre = "" \/ includePrerelease(prerelease(versionClear(range)))}

Highest(S) == CHOOSE v \in S : \A w \in S : w = v \/ Precedes(w, v)

\* The recommended downgrade: None when no version qualifies.
DowngradeTarget(versions, range, installed, advisories) ==
  LET S == {v \in Searched(versions, range) :
              Precedes(v, installed) /\ ~Vulnerable(v, advisories)}
  IN IF S = {} THEN None ELSE Some(Highest(S))

\* The status the pass gives: none when the installed version is not
\* vulnerable; "advisory" is the advisory reported without a target.
AdvisoryStatus(versions, range, installed, advisories, suggested) ==
  IF ~Vulnerable(installed, advisories) THEN "none"
  ELSE IF ~Vulnerable(suggested, advisories) THEN "advisory-update-available"
  ELSE IF DowngradeTarget(versions, range, installed, advisories) # None
         THEN "advisory-downgrade-needed"
         ELSE "advisory"

\* One pass for one dependency that has a suggestion.
AdvisoryPass(range, versions, installed, advisories) ==
  LET latest == LatestVersion(range, versions, protection) IN
  /\ advised = None
  /\ latest # None
  /\ LET suggested == parse(latest[1])[1]
         status == AdvisoryStatus(versions, range, installed, advisories, suggested)
     IN advised' = Some([range |-> range, published |-> versions,
                         installed |-> installed, advisories |-> advisories,
                         suggestion |-> suggested, status |-> status,
                         target |-> IF status = "advisory-downgrade-needed"
                                      THEN DowngradeTarget(versions, range, installed,
                                                           advisories)
                                      ELSE None])
  /\ UNCHANGED <<protection, rpc, packageInfo, packageVersions, suggestion, classified,
                 notRes>>

\* One pass is followed.
AdvisoryNext ==
  /\ advised = None
  /\ \E r \in AdvisedRanges, installed \in AdvisedVersions, A \in AdvisorySets,
        V \in {W \in SUBSET AdvisedVersions : Cardinality(W) <= MaxPublished} :
       AdvisoryPass(r, V, installed, A)

(***************************************************************************)
(* DocumentDecoration of one document   (src/src/DocumentDecoration.ts)    *)
(*                                                                         *)
(* layers is DocumentDecorationManager.layers: layers[i + 1] is layer i,   *)
(* and gives each line None (no entry) or Some(contentText).  render is a  *)
(* lazyCallback with neither wait nor delay whose callback hands every     *)
(* layer's lines to the editor: renderRunning and renderNext are its       *)
(* isRunning and "argsNext !== undefined", shown is what the last          *)
(* setDecorations calls carried.                                           *)
(*                                                                         *)
(* History kept for the properties:                                        *)
(*   lastSet   Some of the line, the suggested version and the installed   *)
(*             version (None: unknown) of the setUpdateMessage call that   *)
(*             was the last operation; None after any other operation      *)
(*   lastMessages  per line, Some of the messages of the last setLine for  *)
(*             it, None when it was cleared last or never set              *)
(*   renderedBy  what ran the callback of render last: a "call" of       *)
(*             render, the completion "timer", or "none" so far           *)
(***************************************************************************)
\* The lines of the manifest that declare a dependency.
DecoLines == {3, 7}
\* The versions an update record may carry (versionLatest), and the
\* mappings getPackagesInstalled may have resolved to.
DecoVersions == {Str(SemVer(1, 0, 1, "")), Str(SemVer(2, 0, 0, ""))}
InstalledMappings ==
  {None} \cup {Some(m) : m \in UNION {[S -> DecoVersions] : S \in SUBSET {"lodash"}}}

CHECKING == <<"checking">>
UPDATE_AVAILABLE == <<"Update available:">>
ALREADY_INSTALLED == <<"(already installed)">>

DecorationLayer == [l \in DecoLines |-> None]

DecoInit ==
  /\ layers = <<>>
  /\ renderRunning = FALSE
  /\ renderNext = FALSE
  /\ shown = <<>>
  /\ lastSet = None
  /\ lastMessages = [l \in DecoLines |-> None]
  /\ renderedBy = "none"

\* getLayer(layer), lines 33-39
getLayer(ls, layer) == IF layer + 1 > Len(ls) THEN Append(ls, DecorationLayer) ELSE ls

RECURSIVE SetMessages(_, _, _, _)
\* messages.forEach, lines 91-105, from messageIndex on.
SetMessages(ls, line, messages, messageIndex) ==
  IF messageIndex >= Len(messages)
    THEN ls
    ELSE SetMessages([getLayer(ls, messageIndex) EXCEPT
                        ![messageIndex + 1][line] = Some(messages[messageIndex + 1])],
                     line, messages, messageIndex + 1)

\* lines 111-115
ClearedLine(ls, line) == [i \in 1..Len(ls) |-> [ls[i] EXCEPT ![line] = None]]

\* this.render(), with the layers as the caller left them.
Render(ls) ==
  IF ~renderRunning
    THEN /\ renderRunning' = TRUE
         /\ shown' = ls
         /\ renderedBy' = "call"
         /\ UNCHANGED renderNext
    ELSE /\ renderNext' = TRUE
         /\ UNCHANGED <<renderRunning, shown, renderedBy>>

\* Variant: the completion timer drops the pending call.
AfterTimerStale(pending, ls, carried) == carried
\* What the editor was last handed once the completion timer has fired:
\* the pending call, if any, runs the callback on the layers as they are.
AfterTimer(pending, ls, carried) == IF pending THEN ls ELSE carried

\* The completion timer of render (Utils.ts lines 39-47).
RenderTimerFire ==
  /\ renderRunning
  /\ renderRunning' = renderNext
  /\ renderNext' = FALSE
  /\ shown' = AfterTimer(renderNext, layers, shown)
  /\ renderedBy' = IF renderNext THEN "timer" ELSE renderedBy
  /\ UNCHANGED <<layers, lastSet, lastMessages, notDeco>>

\* setLine(line, messages), lines 88-108
setLine(line, messages) ==
  /\ layers' = SetMessages(layers, line, messages, 0)
  /\ Render(layers')
  /\ lastMessages' = [lastMessages EXCEPT ![line] = Some(messages)]

\* clearLine(line), lines 110-118
ClearLine(line) ==
  /\ layers' = ClearedLine(layers, line)
  /\ Render(layers')
  /\ lastSet' = None
  /\ lastMessages' = [lastMessages EXCEPT ![line] = None]
  /\ UNCHANGED notDeco

\* setCheckingMessage(line), lines 120-122
SetCheckingMessage(line) ==
  /\ setLine(line, <<CHECKING>>)
  /\ lastSet' = None
  /\ UNCHANGED notDeco

\* packagesInstalled?.[name]
InstalledVersion(packagesInstalled, name) ==
  IF packagesInstalled = None THEN None
  ELSE IF name \in DOMAIN packagesInstalled[1] THEN Some(packagesInstalled[1][name])
  ELSE None

\* Variant: the installed version is not compared.
AlreadyInstalledNever(versionLatest, packageVersionInstalled) == FALSE
\* Line 137
AlreadyInstalled(versionLatest, packageVersionInstalled) ==
  Some(versionLatest) = packageVersionInstalled

\* The messages of setUpdateMessage, lines 132-139
UpdateDetails(versionLatest, packageVersionInstalled) ==
  <<UPDATE_AVAILABLE, versionLatest>>
    \o (IF AlreadyInstalled(versionLatest, packageVersionInstalled)
          THEN <<ALREADY_INSTALLED>> ELSE <<>>)

\* setUpdateMessage(line, packageInfo, packagesInstalled), lines 124-142
SetUpdateMessage(line, name, versionLatest, packagesInstalled) ==
  /\ setLine(line, UpdateDetails(versionLatest, InstalledVersion(packagesInstalled, name)))
  /\ lastSet' = Some([line |-> line, versionLatest |-> versionLatest,
                      installed |-> InstalledVersion(packagesInstalled, name)])
  /\ UNCHANGED notDeco

DecoNext ==
  \/ \E line \in DecoLines : SetCheckingMessage(line)
  \/ \E line \in DecoLines, versionLatest \in DecoVersions,
        packagesInstalled \in InstalledMappings :
       SetUpdateMessage(line, "lodash", versionLatest, packagesInstalled)
  \/ \E line \in DecoLines : ClearLine(line)
  \/ RenderTimerFire

(***************************************************************************)
(* The whole program, and each component on its own.                       *)
(***************************************************************************)
Init ==
  /\ GateInit /\ LazyInit /\ ClockInit /\ ViewInit /\ LsInit /\ ResInit /\ DecoInit
  /\ ClearInit

Next ==
  \/ GateNext \/ LazyNext \/ ViewNext \/ LsNext
  \/ ResNext \/ ClassifyNext \/ AdvisoryNext \/ DecoNext \/ ClearNext

Spec == Init /\ [][Next]_vars

\* A component that is constructed and never called.
GateUnused == concurrency = 0 /\ GateStart
LazyUnused == wait = 0 /\ LazyStart
ViewUnused == cacheLifetime = InstalledLifetime /\ ViewStart
ResUnused == protection = TRUE /\ ResStart
\* The components that are not part of the concurrency layer, unused.  The
\* last one is versionClear, never called.
ClearUnused == clearInput = <<>> /\ ClearStart
RestUnused == ResUnused /\ DecoInit /\ ClearUnused

\* Only the gate is used.
InitGate == GateInit /\ LazyUnused /\ ClockInit /\ ViewUnused /\ LsInit /\ RestUnused
SpecGate == InitGate /\ [][GateNext]_vars
\* The same under the scheduling of the event loop: an armed interval keeps
\* firing, a queued continuation runs, and a func that was started
\* completes, one way or the other.  Nothing makes a caller arrive.
GateFairness ==
  \A c \in Callers :
    /\ WF_vars(PollFire(c))
    /\ WF_vars(Resume(c))
    /\ WF_vars(FuncFulfil(c) \/ FuncReject(c))
    /\ WF_vars(AfterFulfil(c))
    /\ WF_vars(AfterReject(c))
SpecGateFair == SpecGate /\ GateFairness

\* Only the debounced trigger is used.
InitLazy == GateUnused /\ LazyInit /\ ClockInit /\ ViewUnused /\ LsInit /\ RestUnused
SpecLazy == InitLazy /\ [][LazyNext]_vars

\* Only getPackageVersions is used.
InitView == GateUnused /\ LazyUnused /\ ClockInit /\ ViewInit /\ LsInit /\ RestUnused
SpecView == InitView /\ [][ViewNext]_vars

\* Only getPackagesInstalled is used.
InitLs == GateUnused /\ LazyUnused /\ ClockInit /\ ViewUnused /\ LsInit /\ RestUnused
SpecLs == InitLs /\ [][LsNext]_vars

\* Both caches are used, for one package and one document, within a
\* budget of calls.
CallBudget == nlookups + nilookups < MaxLookups
CachesNext ==
  \/ \E d \in TimeSteps : Tick(d)
  \/ CallBudget /\ GetPackageVersions("lodash")
  \/ \E q \in 1..Len(queries), error \in BOOLEAN, stdout \in ViewStdouts :
       ViewExecCallback(q, error, stdout)
  \/ CallBudget /\ GetPackagesInstalled("/a")
  \/ \E q \in 1..Len(iqueries), error \in BOOLEAN, stdout \in LsStdouts :
       LsExecCallback(q, error, stdout)
SpecCaches == InitView /\ [][CachesNext]_vars

\* Only getPackageLatestVersion is used.
InitResolve ==
  GateUnused /\ LazyUnused /\ ClockInit /\ ViewUnused /\ LsInit /\ ResInit /\ DecoInit
  /\ ClearUnused
SpecResolve == InitResolve /\ [][ResNext]_vars

\* Only the classification is used.
InitClassify ==
  GateUnused /\ LazyUnused /\ ClockInit /\ ViewUnused /\ LsInit /\ ResUnused /\ DecoInit
  /\ ClearUnused
SpecClassify == InitClassify /\ [][ClassifyNext]_vars

\* Only the advisory pass is used.
InitAdvisory ==
  GateUnused /\ LazyUnused /\ ClockInit /\ ViewUnused /\ LsInit /\ ResUnused /\ DecoInit
  /\ ClearUnused
SpecAdvisory == InitAdvisory /\ [][AdvisoryNext]_vars

\* Only the decorations of a document are used.
InitDeco ==
  GateUnused /\ LazyUnused /\ ClockInit /\ ViewUnused /\ LsInit /\ ResUnused /\ DecoInit
  /\ ClearUnused
SpecDeco == InitDeco /\ [][DecoNext]_vars

\* Only versionClear is used.
InitClear ==
  GateUnused /\ LazyUnused /\ ClockInit /\ ViewUnused /\ LsInit /\ ResUnused /\ DecoInit
  /\ ClearInit
SpecClear == InitClear /\ [][ClearNext]_vars

(***************************************************************************)
(* Properties of the concurrency gate (SpecGate)                           *)
(***************************************************************************)
\* C1: for a gate made with promiseLimit(n), n >= 1, the number of funcs
\* started and not yet completed never exceeds n, in every interleaving of
\* calls, interval firings and completions.
C1_GateBound ==
  concurrency >= 1 => Cardinality(Started) <= concurrency /\ inProgress <= concurrency

\* The gate is full, a waiter is polling, and a seat has already been given
\* back and taken again.
C1_Witness ==
  /\ concurrency >= 1
  /\ Cardinality(Started) = concurrency
  /\ \E c \in Callers : gpc[c] = "polling"
  /\ \E c \in Callers : gpc[c] = "done"

\* C10: every admitted func gives its seat back when it completes, whether
\* it returns or throws: once no admitted func is left, inProgress is 0.
C10_SeatsReleased ==
  (concurrency >= 1 /\ Seated = {}) => inProgress = 0

(***************************************************************************)
(* Properties of the debounced trigger (SpecLazy)                          *)
(***************************************************************************)
\* C2: at most one invocation of W is in flight at any time.
C2_MutualExclusion == running <= 1

\* A second invocation is in flight after the first one completed.
C2_Witness == running = 1 /\ Len(invoked) >= 2

\* C3: the calls that arrive while a unit is in flight are coalesced: the
\* pending slot holds the args of the last of them (and nothing when none
\* arrived), and the completion timer hands exactly those args to the one
\* invocation that follows.
C3_Coalescing ==
  /\ argsNext = lastDuring
  /\ \A i \in 1..Len(pendingRuns) :
       pendingRuns[i].want # None /\ pendingRuns[i].got = pendingRuns[i].want

\* C4: a call made while the trigger is idle leads to an invocation of W
\* with its own args, at once when wait = 0 and from the wait timer
\* otherwise, whatever calls arrive afterwards: the args of the idle calls
\* are, in order, those W was invoked with for a leading unit, followed by
\* those the armed wait timer holds.
C4_LeadingEdge == LeadingArgs = idleCalls

\* With wait # 0: the first call's args reached W although a later call
\* with other args had arrived.
C4_Witness ==
  /\ wait # 0
  /\ Len(invoked) = 1
  /\ invoked[1] = [args |-> idleCalls[1], kind |-> "leading"]
  /\ argsNext # None
  /\ argsNext[1] # idleCalls[1]

C7_NoPoisoning ==
  /\ \A n \in Names :
       CACHE_PACKAGES[n] # None => queries[CACHE_PACKAGES[n][1].value].status # "rejected"
  /\ lookup # None => lookup[1].status # "rejected"
  /\ (lookup # None /\ lookup[1].afterFailure) => lookup[1].fresh

\* A call made after a failure, within the lifetime of the failed query's
\* entry, started a new process.
C7_Witness ==
  /\ lookup # None
  /\ lookup[1].afterFailure
  /\ lookup[1].fresh
  /\ \E q \in lookup[1].within : queries[q].status = "rejected"

(***************************************************************************)
(* Properties of getPackagesInstalled (SpecLs)                             *)
(***************************************************************************)
\* The query produced no installed-versions mapping.
NoUsableOutput(stdout) == stdout \in {"", "garbage", "nodeps"}

\* C8: after the installed-versions query failed, the cache holds no entry
\* for it, and no call is handed the failed result.
C8_FailedEntryDiscarded ==
  /\ CACHE_PACKAGES_INSTALLED # None =>
       iqueries[CACHE_PACKAGES_INSTALLED[1].value].value # "undefined"
  /\ ilookup # None => ilookup[1].seen # "undefined"

\* C9 as stated: the promise never rejects, and it resolves to undefined
\* whenever the external call failed: exec reported an error, or the output
\* was empty, unparsable or without dependencies.
C9_AbsentOnAnyFailure ==
  /\ \A q \in 1..Len(iqueries) : iqueries[q].status # "rejected"
  /\ (lsExec # None /\ (lsExec[1].error \/ NoUsableOutput(lsExec[1].stdout)))
       => (lsExec[1].status = "resolved" /\ lsExec[1].value = "undefined")

\* C9 amended: the promise never rejects, and it resolves to undefined
\* whenever the output was empty, unparsable or without dependencies, with
\* or without an error.
C9_NeverRejects ==
  /\ \A q \in 1..Len(iqueries) : iqueries[q].status # "rejected"
  /\ (lsExec # None /\ NoUsableOutput(lsExec[1].stdout))
       => (lsExec[1].status = "resolved" /\ lsExec[1].value = "undefined")

\* A query whose exec reported an error and no output resolved to undefined.
C9_Witness ==
  /\ lsExec # None
  /\ lsExec[1].error
  /\ lsExec[1].stdout = ""
  /\ iqueries[lsExec[1].q].status = "resolved"
  /\ iqueries[lsExec[1].q].value = "undefined"

(***************************************************************************)
(* Properties of getPackageLatestVersion (SpecResolve)                     *)
(***************************************************************************)
\* C11: when the query for a package's published versions fails,
\* getPackageLatestVersion completes with a "no data" result (null) and
\* its promise does not reject.
C11_FailureIsolated == rpc # "rejected"

\* The terms of the statements about the suggestion, for a call that
\* returned: the baseline (the declared range without its operator), the
\* published versions, and what "newest" and "compatible" mean.
Baseline == versionClear(packageInfo[1].version)
BaselineIsPrerelease == \E i \in 1..Len(Baseline) : Baseline[i] = "-"
\* The numbers given in the baseline: 1 (`1`), 2 (`1.0`) or 3.
Given == IF Len(Baseline) = 1 THEN 1 ELSE IF Len(Baseline) = 3 THEN 2 ELSE 3
\* The baseline as a version, numbers not given being zero.
BaselineVersion == IF BaselineIsPrerelease THEN parse(Baseline)[1] ELSE coerce(Baseline)[1]
ReleaseCounterpart ==
  SemVer(BaselineVersion.major, BaselineVersion.minor, BaselineVersion.patch, "")
V == packageVersions[1]
IsRelease(v) == v.pre = ""
Newest(S) == CHOOSE v \in S : \A w \in S : w = v \/ Precedes(w, v)
NewestOrNull(S) == IF S = {} THEN None ELSE Some(Str(Newest(S)))
\* The members of V that count: prereleases only for a prerelease baseline.
Candidates == IF BaselineIsPrerelease THEN V ELSE {v \in V : IsRelease(v)}
\* v is inside the caret range of base, of which `given` numbers are
\* written: not below it, and equal to it up to its leftmost non-zero
\* number (up to its last written number when all are zero).
InCaretRange(v, base, given) ==
  /\ ~Precedes(v, base)
  /\ IF base.major > 0 \/ given = 1
       THEN v.major = base.major
       ELSE IF base.minor > 0 \/ given = 2
              THEN v.major = 0 /\ v.minor = base.minor
              ELSE v.major = 0 /\ v.minor = 0 /\ v.patch = base.patch
Satisfying == {v \in Candidates : InCaretRange(v, BaselineVersion, Given)}
\* The releases inside the caret range of the release counterpart.
Graduations == {v \in V : IsRelease(v) /\ InCaretRange(v, ReleaseCounterpart, 3)}
SuggestedVersion == parse(suggestion[1])[1]

\* C13: for a declared range whose baseline has no prerelease identifier,
\* with protection on or off, the version returned is never a prerelease.
C13_NoUnsolicitedPrerelease ==
  (rpc = "returned" /\ ~BaselineIsPrerelease /\ suggestion # None)
    => IsRelease(SuggestedVersion)

\* A release baseline, and a prerelease published that is newer than
\* every release, inside and outside the caret range.
C13_Witness ==
  /\ rpc = "returned" /\ protection /\ ~BaselineIsPrerelease /\ suggestion # None
  /\ \E v \in V : ~IsRelease(v) /\ InCaretRange(v, BaselineVersion, Given)
                  /\ \A w \in V : IsRelease(w) => Precedes(w, v)

\* C14: with protection disabled the suggestion is the maximum of V, the
\* prereleases of V counting only when the baseline is a prerelease.
C14_LatestWhenUnprotected ==
  (rpc = "returned" /\ ~protection) => suggestion = NewestOrNull(Candidates)

\* Protection is off, V has versions of a higher major than the baseline
\* and a prerelease that does not count.
C14_Witness ==
  /\ rpc = "returned" /\ ~protection /\ suggestion # None
  /\ SuggestedVersion.major > BaselineVersion.major
  /\ Satisfying # {}
  /\ \E v \in V \ Candidates : Precedes(SuggestedVersion, v)

\* C15: with protection enabled and a release baseline b, if V has a
\* version greater than b with b's major version, the suggestion is the
\* maximum such version.
SameMajorNewer == {v \in V : Precedes(BaselineVersion, v) /\ v.major = BaselineVersion.major}
C15_SameMajorMaximum ==
  (rpc = "returned" /\ protection /\ ~BaselineIsPrerelease /\ SameMajorNewer # {})
    => suggestion = Some(Str(Newest(SameMajorNewer)))

\* C15, amended: ... if V has a release greater than b inside the caret
\* range of b, the suggestion is the maximum such release.
CaretNewer == {v \in Satisfying : Precedes(BaselineVersion, v)}
C15_CaretMaximum ==
  (rpc = "returned" /\ protection /\ ~BaselineIsPrerelease /\ CaretNewer # {})
    => suggestion = Some(Str(Newest(CaretNewer)))

\* A newer release inside the caret range is suggested although V has a
\* version of a higher major.
C15_Witness ==
  /\ rpc = "returned" /\ protection /\ ~BaselineIsPrerelease /\ CaretNewer # {}
  /\ BaselineVersion.major > 0
  /\ \E v \in V : IsRelease(v) /\ v.major > BaselineVersion.major

\* C16: with protection enabled, when no published version satisfies the
\* caret range of the baseline, or the maximum satisfying version equals
\* the baseline, the suggestion is versionLatest, the maximum of V.
C16_FallbackToLatest ==
  ( /\ rpc = "returned" /\ protection
    /\ Satisfying = {} \/ Str(Newest(Satisfying)) = Baseline )
    => suggestion = NewestOrNull(Candidates)

\* The baseline is the newest version of its range and the suggestion
\* crosses to a higher major.
C16_Witness ==
  /\ rpc = "returned" /\ protection
  /\ Satisfying # {} /\ Str(Newest(Satisfying)) = Baseline
  /\ suggestion # None
  /\ SuggestedVersion.major > BaselineVersion.major

\* C17: with protection enabled and a prerelease baseline b, if V has a
\* release inside the caret range of b's release counterpart, the
\* suggestion is the maximum such release, whatever newer prereleases V has.
C17_Graduation ==
  (rpc = "returned" /\ protection /\ BaselineIsPrerelease /\ Graduations # {})
    => suggestion = Some(Str(Newest(Graduations)))

\* A release is suggested while V has a newer prerelease inside the range.
C17_Witness ==
  /\ rpc = "returned" /\ protection /\ BaselineIsPrerelease /\ Graduations # {}
  /\ \E v \in V : /\ ~IsRelease(v)
                  /\ InCaretRange(v, BaselineVersion, 3)
                  /\ Precedes(Newest(Graduations), v)

\* C18: with protection enabled and a prerelease baseline b, when V has
\* no release inside the caret range of b's release counterpart, the
\* suggestion is the newest prerelease of V inside the caret range of b if
\* one newer than b exists, and b itself when b is the newest version of V.
NewerPrereleases ==
  {v \in V : ~IsRelease(v) /\ Precedes(BaselineVersion, v)
             /\ InCaretRange(v, BaselineVersion, 3)}
C18_PrereleaseLine ==
  (rpc = "returned" /\ protection /\ BaselineIsPrerelease /\ Graduations = {})
    => /\ NewerPrereleases # {} => suggestion = Some(Str(Newest(NewerPrereleases)))
       /\ (BaselineVersion \in V /\ \A v \in V : ~Precedes(BaselineVersion, v))
            => suggestion = Some(Baseline)

\* A newer prerelease of the line is suggested although V has a version
\* of a higher major.
C18_Witness ==
  /\ rpc = "returned" /\ protection /\ BaselineIsPrerelease /\ Graduations = {}
  /\ NewerPrereleases # {}
  /\ \E v \in V : v.major > BaselineVersion.major

(***************************************************************************)
(* Properties of both caches (SpecCaches)                                  *)
(***************************************************************************)
\* C12: a call of getPackageVersions(name) or getPackagesInstalled made
\* when the stored entry is as old as its lifetime or older does not
\* return the stored promise: it starts a new query and stores an entry for
\* it created at the time of the call.
C12_StaleNeverReused ==
  [][/\ \A n \in Names :
          ( /\ nlookups' = nlookups + 1
            /\ lookup'[1].name = n
            /\ CACHE_PACKAGES[n] # None
            /\ now - CACHE_PACKAGES[n][1].createdAt >= cacheLifetime )
          => ( /\ lookup'[1].q # CACHE_PACKAGES[n][1].value
               /\ Len(queries') = Len(queries) + 1
               /\ lookup'[1].q = Len(queries')
               /\ queries'[Len(queries')].status = "pending"
               /\ CACHE_PACKAGES'[n] = Some([value |-> Len(queries'), createdAt |-> now]) )
     /\ ( /\ nilookups' = nilookups + 1
          /\ CACHE_PACKAGES_INSTALLED # None
          /\ now - CACHE_PACKAGES_INSTALLED[1].createdAt >= InstalledLifetime )
        => ( /\ ilookup'[1].q # CACHE_PACKAGES_INSTALLED[1].value
             /\ Len(iqueries') = Len(iqueries) + 1
             /\ ilookup'[1].q = Len(iqueries')
             /\ iqueries'[Len(iqueries')].status = "pending"
             /\ CACHE_PACKAGES_INSTALLED' =
                  Some([value |-> Len(iqueries'), createdAt |-> now]) )
    ]_vars

\* A call of getPackagesInstalled found an entry a lifetime old, after
\* getPackageVersions was used as well.
C12_Witness ==
  /\ ilookup # None /\ ilookup[1].stale
  /\ ilookup[1].at >= InstalledLifetime
  /\ lookup # None

(***************************************************************************)
(* Properties of the decorations (SpecDeco)                                *)
(***************************************************************************)
\* What layer i (from 0) holds for a line: None when there is no such
\* layer or no entry.
Held(i, line) == IF i + 1 <= Len(layers) THEN layers[i + 1][line] ELSE None

C20_UnresolvableSkipped ==
  (classified # None /\ classified[1].range \in Unresolvable)
    => /\ classified[1].status = "not-applicable"
       /\ ~classified[1].emitted

\* The disjunctive range was classified although its lookup returned
\* versions.
C20_Witness ==
  /\ classified # None
  /\ \E i \in 1..Len(classified[1].range) : classified[1].range[i] = "||"
  /\ classified[1].published # None
  /\ classified[1].published[1] # {}

(***************************************************************************)
(* Properties of the advisory pass (SpecAdvisory)                          *)
(***************************************************************************)
\* The case of the downgrade: the installed version and the suggestion both
\* match the vulnerable range of an advisory.
BothVulnerable ==
  /\ advised # None
  /\ \E r \in advised[1].advisories : Matches(advised[1].installed, r)
  /\ \E r \in advised[1].advisories : Matches(advised[1].suggestion, r)
\* The published versions below the installed one that no advisory matches.
SafeBelow ==
  {v \in advised[1].published :
     /\ Precedes(v, advised[1].installed)
     /\ \A r \in advised[1].advisories : ~Matches(v, r)}
\* Those of them the declared range counts: a prerelease only when its
\* baseline is one.
SafeBelowCounted ==
  {v \in SafeBelow :
     IsRelease(v) \/ \E i \in 1..Len(advised[1].range) : advised[1].range[i] = "-"}

TriggerState(busy, slot) ==
  IF busy
    THEN IF slot = None THEN "running" ELSE "running-with-pending"
    ELSE IF slot = None THEN "idle" ELSE "none"
\* The machine's transitions: a call starts a unit when idle and fills the
\* pending slot otherwise; the completion timer starts the pending call and
\* clears the slot, or returns to idle when the slot is empty.
OnCall(s) ==
  IF s = "idle" THEN "running"
  ELSE IF s = "none" THEN "none" ELSE "running-with-pending"
OnTimer(s) ==
  IF s = "running" THEN "idle"
  ELSE IF s = "running-with-pending" THEN "running" ELSE "none"
OnCalls(s, k) == IF k = 0 THEN s ELSE IF k = 1 THEN OnCall(s) ELSE OnCall(OnCall(s))

\* C22: lazyCallback refines the three-state machine: isRunning and
\* argsNext always stand for idle, running or running-with-pending
\* (argsNext is never defined while isRunning is false), and every step
\* takes the machine's transitions for what happened in it: the firing of
\* the completion timer, if it fired, and then one call transition per call
\* of the activator made in the step.
C22_RefinesThreeStates ==
  [][/\ TriggerState(isRunning, argsNext) # "none"
     /\ TriggerState(isRunning', argsNext')
          = OnCalls(IF delayTimer' < delayTimer
                      THEN OnTimer(TriggerState(isRunning, argsNext))
                      ELSE TriggerState(isRunning, argsNext),
                    ncalls' - ncalls)]_vars

\* Nothing of the trigger is left to happen unless the activator is called:
\* no timer is armed and no invocation of W is in flight.
AtRest == waitTimer = None /\ delayTimer = 0 /\ running = 0

\* C23: provided W always terminates normally, every call of the activator
\* is followed by an invocation of W that begins at or after it: once the
\* trigger is idle with nothing left to happen, no call has been made since
\* W was last invoked.  (isRunning stays true for ever once W fails, so an
\* idle trigger at rest has seen W terminate normally every time.)
C23_NoCallLost == (AtRest /\ ~isRunning) => ~unserved

\* C24: a unit that fails does not stop the trigger: once nothing is left
\* to happen, the trigger is idle again (isRunning is false and no call is
\* pending), so that the next call starts W.
C24_RecoversFromFailure == AtRest => (~isRunning /\ argsNext = None)

(***************************************************************************)
(* Eviction and scope of the caches (SpecView, SpecLs)                     *)
(***************************************************************************)
\* C25: a failing query evicts only its own entry: whenever the entry of a
\* name is removed from CACHE_PACKAGES, the query whose promise it held is
\* the one that just failed; the entry of a later query B is not removed by
\* the failure of an earlier query A for the same name.
C25_EvictsOwnEntryOnly ==
  [][\A n \in Names :
       (CACHE_PACKAGES[n] # None /\ CACHE_PACKAGES'[n] = None)
         => /\ queries[CACHE_PACKAGES[n][1].value].status = "pending"
            /\ queries'[CACHE_PACKAGES[n][1].value].status = "rejected"]_vars

\* C26: the snapshot returned for a document is that of the document's
\* project: the promise a call returns is that of a query run in the
\* directory of the document the call was made for.
C26_SnapshotOfOwnProject ==
  ilookup # None => iqueries[ilookup[1].q].cwd = ilookup[1].doc

(***************************************************************************)
(* Progress of the concurrency gate (SpecGateFair)                         *)
(***************************************************************************)
\* C27: with the poll timers firing fairly and every func that was started
\* completing, every caller that waits for a vacancy gets its func started:
\* no waiter polls for ever.
C27_GateProgress ==
  \A c \in Callers : (gpc[c] = "polling") ~> (gpc[c] = "running")

(***************************************************************************)
(* The suggestion against the baseline (SpecResolve)                       *)
(***************************************************************************)
\* C28: with protection on or off, a non-null result of
\* getPackageLatestVersion is never below the baseline of the declared
\* range in semantic-version precedence.
C28_NeverBelowBaseline ==
  (rpc = "returned" /\ suggestion # None)
    => ~Precedes(SuggestedVersion, BaselineVersion)

\* The versions of V that count for the range and are not below its
\* baseline.
NotBelowBaseline == {v \in Candidates : ~Precedes(v, BaselineVersion)}

\* C28, amended: ... is never below the baseline, provided V has a version
\* that counts for the range (a prerelease only for a prerelease baseline)
\* and is not below the baseline; when V has none, the result is the newest
\* version that counts, which is below the baseline.
C28_NeverBelowBaselineIfPublished ==
  rpc = "returned" =>
    IF NotBelowBaseline # {}
      THEN suggestion # None /\ ~Precedes(SuggestedVersion, BaselineVersion)
      ELSE suggestion = NewestOrNull(Candidates)

\* Protection is on, V has a version below the baseline and one above it,
\* and the version above is suggested.
C28_Witness ==
  /\ rpc = "returned" /\ protection /\ suggestion # None
  /\ \E v \in V : Precedes(v, BaselineVersion)
  /\ Precedes(BaselineVersion, SuggestedVersion)

(***************************************************************************)
(* The layers and what the editor shows (SpecDeco)                         *)
(***************************************************************************)
\* C29: the layers hold exactly the last message list of a line: after a
\* setLine with k messages, layers 0..k-1 hold them and no layer from k on
\* has an entry for the line; after a clearLine no layer has one.
C29_LayersHoldLastMessages ==
  \A line \in DecoLines :
    LET k == IF lastMessages[line] = None THEN 0 ELSE Len(lastMessages[line][1]) IN
    /\ \A i \in 0..(k - 1) : Held(i, line) = Some(lastMessages[line][1][i + 1])
    /\ \A i \in k..(Len(layers) - 1) : Held(i, line) = None

\* C30: rendering converges: when no timer of render is left to fire, the
\* last setDecorations call of each layer carried the lines the layer has
\* now; no modification is left unrendered.
C30_RenderConverges == ~renderRunning => shown = layers

\* A burst: lines were set while a render was in flight, the pending render
\* ran from the completion timer, and the last timer has fired.
C30_Witness ==
  /\ ~renderRunning
  /\ renderedBy = "timer"
  /\ Len(layers) >= 3
  /\ \E line \in DecoLines : Held(2, line) = Some(ALREADY_INSTALLED)
  /\ \E line \in DecoLines : Held(0, line) = Some(CHECKING)
  /\ shown = layers

(***************************************************************************)
(* Baseline extraction (SpecClear)                                         *)
(***************************************************************************)
\* The characters that are not decimal digits, and the blank.
NonDigit(ch) == ch \notin {"0", "1", "2", "3", "4", "5", "6", "7", "8", "9"}
Blank(ch) == ch = " "
\* The length of the maximal leading run of non-digits of s, and of what
\* is left of s from position from on once its trailing blanks are cut.
LeadingRun(s) ==
  IF \A i \in 1..Len(s) : NonDigit(s[i])
    THEN Len(s)
    ELSE (CHOOSE i \in 1..Len(s) : ~NonDigit(s[i]) /\ \A j \in 1..(i - 1) : NonDigit(s[j])) - 1
LastKept(s, from) ==
  IF \A i \in from..Len(s) : Blank(s[i])
    THEN from - 1
    ELSE CHOOSE i \in from..Len(s) : ~Blank(s[i]) /\ \A j \in (i + 1)..Len(s) : Blank(s[j])
\* s without its maximal leading run of non-digits and its trailing blanks.
Bare(s) == SubSeq(s, LeadingRun(s) + 1, LastKept(s, LeadingRun(s) + 1))

\* C31: for every input string, versionClear removes exactly the maximal
\* leading run of non-digit characters and the trailing whitespace and
\* leaves the rest unchanged, so that a prerelease tag is preserved
\* verbatim, and applying it again changes nothing.
C31_BaselineExtraction ==
  /\ cleared # None => cleared[1] = Bare(clearInput)
  /\ (cleared # None /\ clearInput \in {<<"^">> \o Str(v) : v \in Published})
       => cleared[1] = Tail(clearInput)
  /\ clearedAgain # None => clearedAgain = cleared

\* The range with a two-identifier prerelease tag gave its version with the
\* tag whole, and the second application returned the same.
C31_Witness ==
  /\ clearInput = TaggedRange
  /\ cleared = Some(Tail(TaggedRange))
  /\ clearedAgain = cleared

====
